---- MODULE Spec2Model ----
(***************************************************************************)
(* Model of src/oscillator.js: the Oscillator AudioWorkletProcessor.       *)
(*                                                                         *)
(* Numbers.  Phases, samples, amplitudes and the other real quantities are *)
(* fixed-point integers in units of 1/ONE.  Frequencies (frequency, sync,  *)
(* sampleRate) are whole numbers of Hz.  JavaScript's undefined and NaN    *)
(* are the one value NaN, which every arithmetic operator propagates and   *)
(* every comparison answers false to, as in JavaScript.  Floating-point    *)
(* rounding is not modelled.                                               *)
(***************************************************************************)
EXTENDS Integers, Sequences, FiniteSets, TLC

\* 1.0 in fixed point
ONE == 1000
\* undefined / NaN
NaN == -1000000000
\* Math.PI in fixed point
PI == 3142

----------------------------------------------------------------------------
(* JavaScript arithmetic on fixed-point numbers *)

IsNaN(v) == v = NaN

Add(a, b) == IF IsNaN(a) \/ IsNaN(b) THEN NaN ELSE a + b

Sub(a, b) == IF IsNaN(a) \/ IsNaN(b) THEN NaN ELSE a - b

\* a * b, both fixed point
Mul(a, b) == IF IsNaN(a) \/ IsNaN(b) THEN NaN ELSE (a * b) \div ONE

\* a / b, both fixed point
Div(a, b) == IF IsNaN(a) \/ IsNaN(b) THEN NaN ELSE (a * ONE) \div b

\* a * k for a whole number k
Times(a, k) == IF IsNaN(a) THEN NaN ELSE a * k

\* a / k for a whole number k
Over(a, k) == IF IsNaN(a) THEN NaN ELSE a \div k

\* a * c for a literal coefficient c given in units of 10^-7 (0 <= n):
\* floor(a * n / 10^7), computed without leaving 32 bits
MulCoef(a, n) ==
    IF IsNaN(a) THEN NaN
    ELSE ((a * (n \div 10000)) + ((a * (n % 10000)) \div 10000)) \div 1000

\* (mutant) hz normalized to the Nyquist frequency, sampleRate / 2
NormalizeNyquist(hz, rate) ==
    IF IsNaN(hz) THEN NaN ELSE (hz * ONE) \div (rate \div 2)

\* hz / sampleRate: cycles per second to (fixed-point) cycles per sample
Normalize(hz, rate) == IF IsNaN(hz) THEN NaN ELSE (hz * ONE) \div rate

\* comparisons: false when either side is NaN
Gt(a, b) == ~IsNaN(a) /\ ~IsNaN(b) /\ a > b
Lt(a, b) == ~IsNaN(a) /\ ~IsNaN(b) /\ a < b
Ge(a, b) == ~IsNaN(a) /\ ~IsNaN(b) /\ a >= b

\* Math.floor
Floor(v) == IF IsNaN(v) THEN NaN ELSE (v \div ONE) * ONE

\* Math.abs
Abs(v) == IF IsNaN(v) THEN NaN ELSE IF v < 0 THEN -v ELSE v

\* v % 1: the remainder takes the sign of the dividend
Rem1(v) ==
    IF IsNaN(v) THEN NaN
    ELSE IF v >= 0 THEN v % ONE ELSE -((-v) % ONE)

\* sin on [0, pi] (Bhaskara's rational approximation, error below 0.002)
SinHalf(r) ==
    LET q == (r * (PI - r)) \div ONE
    IN  (16 * ONE * q) \div (((5 * PI * PI) \div ONE) - 4 * q)

\* Math.sin of an angle in radians
Sin(x) ==
    IF IsNaN(x) THEN NaN
    ELSE LET a == IF x < 0 THEN -x ELSE x
             r == a % (2 * PI)
             s == IF r <= PI THEN SinHalf(r) ELSE -SinHalf(r - PI)
         IN  IF x < 0 THEN -s ELSE s

----------------------------------------------------------------------------
(* The processor's methods *)

\* saw(value)
saw(value) == Sub(value, Floor(value))

\* getRateValue(parameter, index): index counts from 0; reading past the
\* end of an array, and falling off the end of the function, give undefined
getRateValue(parameter, index) ==
    IF Len(parameter) > 1
    THEN IF index < Len(parameter) THEN parameter[index + 1] ELSE NaN
    ELSE IF Len(parameter) = 1 THEN parameter[1] ELSE NaN

\* (mutant) clipValue without its lower limit
clipValueAbove(value) == IF Gt(value, ONE) THEN ONE ELSE value

\* clipValue(value)
clipValue(value) ==
    IF Gt(value, ONE) THEN ONE
    ELSE IF Lt(value, -ONE) THEN -ONE
    ELSE value

\* (mutant) the retrigger test with > for >=
retriggersAbove(leaderFrequency, leaderPhase) ==
    leaderFrequency /= 0 /\ Gt(leaderPhase, ONE)

\* the retrigger test of process(): leaderFrequency !== 0 && leaderPhase >= 1
retriggers(leaderFrequency, leaderPhase) ==
    leaderFrequency /= 0 /\ Ge(leaderPhase, ONE)

\* (mutant) offset and vibrato without the final "%= 1"
offsetVibratoOverrun(followerPhase, phaseOffset, vibrato) ==
    LET p1 == Add(followerPhase, phaseOffset)
        angle == Over(Mul(Mul(Times(p1, 2), PI), vibrato), 500)
    IN  Add(p1, Times(Sin(angle), 2))

\* "add offset and vibrato but don't overrun follower cycle"
offsetVibrato(followerPhase, phaseOffset, vibrato) ==
    LET p1 == Add(followerPhase, phaseOffset)
        angle == Over(Mul(Mul(Times(p1, 2), PI), vibrato), 500)
        p2 == Add(p1, Times(Sin(angle), 2))
    IN  Rem1(p2)

\* (mutant) the phase update with the follower's advance applied after the
\* reset as well
movePhasesAdvancing(st, leaderFrequency, followerFrequency, phaseOffset, vibrato, rate) ==
    LET leaderNFrequency == Normalize(leaderFrequency, rate)
        followerNFrequency == Normalize(followerFrequency, rate)
        moved == Add(st.leaderPhase, leaderNFrequency)
        hit == retriggers(leaderFrequency, moved)
        leader == IF hit THEN Rem1(moved) ELSE moved
        follower == IF hit THEN followerNFrequency
                    ELSE Add(st.followerPhase, followerNFrequency)
    IN  [leaderPhase |-> leader,
         followerPhase |-> offsetVibrato(follower, phaseOffset, vibrato),
         retriggered |-> hit]

\* the phase update of one sample: [leaderPhase, followerPhase, retriggered]
movePhases(st, leaderFrequency, followerFrequency, phaseOffset, vibrato, rate) ==
    LET leaderNFrequency == Normalize(leaderFrequency, rate)
        followerNFrequency == Normalize(followerFrequency, rate)
        moved == Add(st.leaderPhase, leaderNFrequency)
        hit == retriggers(leaderFrequency, moved)
        leader == IF hit THEN Rem1(moved) ELSE moved
        follower == IF hit THEN 0
                    ELSE Add(st.followerPhase, followerNFrequency)
    IN  [leaderPhase |-> leader,
         followerPhase |-> offsetVibrato(follower, phaseOffset, vibrato),
         retriggered |-> hit]

\* sine wave
sine(followerPhase) == Sin(Mul(Times(followerPhase, 2), PI))

\* sawtooth wave
sawtooth(followerPhase) == Sub(Times(saw(followerPhase), 2), ONE)

\* pulse wave
pulse(followerPhase, duty) ==
    LET d == Sub(saw(followerPhase), saw(Add(followerPhase, duty)))
    IN  IF Gt(d, 0) THEN ONE ELSE -ONE

\* triangle wave
triangle(followerPhase) ==
    Sub(Times(Abs(Sub(saw(followerPhase), ONE \div 2)), 4), ONE)

\* Math.random() * 2 - 1
whiteOf(random) == Sub(Times(random, 2), ONE)

\* the sample of one frame and the state after it: the chain of
\* "if (wave === k)" of process(); wave is a whole multiple of ONE or NaN
generate(st, wave, duty, random) ==
    LET white == whiteOf(random)
        brown == Div(Add(st.lastOut, Mul(white, 20)), 1020)
        n0 == Add(MulCoef(st.b0, 9988600), MulCoef(white, 555179))
        n1 == Add(MulCoef(st.b1, 9933200), MulCoef(white, 750759))
        n2 == Add(MulCoef(st.b2, 9690000), MulCoef(white, 1538520))
        n3 == Add(MulCoef(st.b3, 8665000), MulCoef(white, 3104856))
        n4 == Add(MulCoef(st.b4, 5500000), MulCoef(white, 5329522))
        n5 == Sub(Sub(0, MulCoef(st.b5, 7616000)), MulCoef(white, 168980))
        pink == Add(Add(Add(Add(Add(Add(Add(n0, n1), n2), n3), n4), n5),
                        st.b6), MulCoef(white, 5362000))
    IN  IF wave = 6 * ONE
        THEN [st |-> [st EXCEPT !.lastOut = brown],
              sampleValue |-> Mul(brown, 3500)]
        ELSE IF wave = 5 * ONE
        THEN [st |-> [st EXCEPT !.b0 = n0, !.b1 = n1, !.b2 = n2, !.b3 = n3,
                                !.b4 = n4, !.b5 = n5,
                                !.b6 = MulCoef(white, 1159260)],
              sampleValue |-> Mul(pink, 110)]
        ELSE IF wave = 4 * ONE
        THEN [st |-> st, sampleValue |-> white]
        ELSE IF wave = 3 * ONE
        THEN [st |-> st, sampleValue |-> sine(st.followerPhase)]
        ELSE IF wave = 2 * ONE
        THEN [st |-> st, sampleValue |-> sawtooth(st.followerPhase)]
        ELSE IF wave = ONE
        THEN [st |-> st, sampleValue |-> pulse(st.followerPhase, duty)]
        ELSE IF wave = 0
        THEN [st |-> st, sampleValue |-> triangle(st.followerPhase)]
        ELSE [st |-> st, sampleValue |-> 0]

\* one pass of the inner loop's body, for the sample at index: the state
\* after it, the value stored in firstChannel[index], and what happened
sampleStep(st, parameters, index, random, rate) ==
    LET signalType == getRateValue(parameters.signalType, index)
        wave == Floor(signalType)
        duty == getRateValue(parameters.duty, index)
        vibrato == getRateValue(parameters.vibrato, index)
        amplitude == getRateValue(parameters.amplitude, index)
        phaseOffset == getRateValue(parameters.phaseOffset, index)
        leaderFrequency == getRateValue(parameters.sync, index)
        followerFrequency == getRateValue(parameters.frequency, index)
        ph == movePhases(st, leaderFrequency, followerFrequency,
                         phaseOffset, vibrato, rate)
        g == generate([st EXCEPT !.leaderPhase = ph.leaderPhase,
                                 !.followerPhase = ph.followerPhase],
                      wave, duty, random)
        value == clipValue(Mul(amplitude, g.sampleValue))
    IN  [st |-> g.st,
         value |-> value,
         entry |-> [index |-> index, signalType |-> signalType,
                    wave |-> wave, duty |-> duty,
                    vibrato |-> vibrato, amplitude |-> amplitude,
                    phaseOffset |-> phaseOffset, sync |-> leaderFrequency,
                    frequency |-> followerFrequency,
                    leaderBefore |-> st.leaderPhase,
                    followerBefore |-> st.followerPhase,
                    leaderPhase |-> g.st.leaderPhase,
                    followerPhase |-> g.st.followerPhase,
                    retriggered |-> ph.retriggered,
                    sampleValue |-> g.sampleValue, value |-> value]]

\* the inner loop, from index on: "for (index < samplesBlockLength)"
RECURSIVE fill(_, _, _, _, _, _, _)
fill(st, firstChannel, parameters, index, randoms, rate, entries) ==
    IF index < Len(firstChannel)
    THEN LET s == sampleStep(st, parameters, index, randoms[index + 1], rate)
         IN  fill(s.st, [firstChannel EXCEPT ![index + 1] = s.value],
                  parameters, index + 1, randoms, rate,
                  Append(entries, s.entry))
    ELSE [st |-> st, firstChannel |-> firstChannel, entries |-> entries]

\* (mutant) process() starting every block from phase 0
processRestarting(st, outs, parameters, randoms, rate) ==
    IF 0 < Len(outs)
    THEN LET r == fill([st EXCEPT !.leaderPhase = 0, !.followerPhase = 0],
                       outs[1], parameters, 0, randoms, rate, <<>>)
         IN  [st |-> r.st,
              outputs |-> [outs EXCEPT ![1] = r.firstChannel],
              returned |-> "true",
              entries |-> r.entries]
    ELSE [st |-> st, outputs |-> outs, returned |-> "undefined",
          entries |-> <<>>]

\* process(_input, outputs, parameters).  The outer loop's body ends in
\* "return true", so it runs for outputNumber = 0 alone; with no output the
\* loop is not entered and the function ends without a return statement.
process(st, outs, parameters, randoms, rate) ==
    IF 0 < Len(outs)
    THEN LET r == fill(st, outs[1], parameters, 0, randoms, rate, <<>>)
         IN  [st |-> r.st,
              outputs |-> [outs EXCEPT ![1] = r.firstChannel],
              returned |-> "true",
              entries |-> r.entries]
    ELSE [st |-> st, outputs |-> outs, returned |-> "undefined",
          entries |-> <<>>]

----------------------------------------------------------------------------
(* The processor as a state machine: the host calls process() per block *)

VARIABLES
    sampleRate,     \* the global sampleRate of the audio context, in Hz
    leaderPhase, followerPhase,
    b0, b1, b2, b3, b4, b5, b6,
    lastOut,
    outputs,        \* the outputs of the last call, as process() left them
    returned,       \* what the last call returned: "true" or "undefined"
    passed,         \* the parameters the last call was given
    log,            \* one entry per sample processed since construction
    calls           \* the number of calls made

fields == <<leaderPhase, followerPhase, b0, b1, b2, b3, b4, b5, b6, lastOut>>

vars == <<sampleRate, fields, outputs, returned, passed, log, calls>>

\* the instance's fields as one value
this ==
    [leaderPhase |-> leaderPhase, followerPhase |-> followerPhase,
     b0 |-> b0, b1 |-> b1, b2 |-> b2, b3 |-> b3, b4 |-> b4, b5 |-> b5,
     b6 |-> b6, lastOut |-> lastOut]

\* constructor()
constructed ==
    [leaderPhase |-> 0, followerPhase |-> 0,
     b0 |-> 0, b1 |-> 0, b2 |-> 0, b3 |-> 0, b4 |-> 0, b5 |-> 0,
     b6 |-> 0, lastOut |-> 0]

ParameterNames ==
    {"signalType", "frequency", "phaseOffset", "vibrato", "duty", "sync",
     "amplitude"}

\* the arrays the host passes for the frames fs: one value per frame for the
\* a-rate parameters (those in arate), the first frame's value for the others
Arrays(fs, arate) ==
    [name \in ParameterNames |->
        IF name \in arate
        THEN [i \in 1..Len(fs) |-> fs[i][name]]
        ELSE <<fs[1][name]>>]

\* the outputs the host passes: buses of one zeroed channel of len samples
Buffers(buses, len) == [o \in 1..buses |-> [i \in 1..len |-> 0]]

\* one call of process() by the host
Process(outs, parameters, randoms) ==
    \E r \in {process(this, outs, parameters, randoms, sampleRate)} :
        /\ leaderPhase' = r.st.leaderPhase
        /\ followerPhase' = r.st.followerPhase
        /\ b0' = r.st.b0
        /\ b1' = r.st.b1
        /\ b2' = r.st.b2
        /\ b3' = r.st.b3
        /\ b4' = r.st.b4
        /\ b5' = r.st.b5
        /\ b6' = r.st.b6
        /\ lastOut' = r.st.lastOut
        /\ outputs' = r.outputs
        /\ returned' = r.returned
        /\ passed' = parameters
        /\ log' = log \o [i \in 1..Len(r.entries) |->
                             r.entries[i] @@ [call |-> calls + 1]]
        /\ calls' = calls + 1
        /\ UNCHANGED sampleRate

----------------------------------------------------------------------------
(* What the host passes *)

\* the values of the seven parameters for one sample
Frame(signalType, frequency, phaseOffset, vibrato, duty, sync, amplitude) ==
    [signalType |-> signalType, frequency |-> frequency,
     phaseOffset |-> phaseOffset, vibrato |-> vibrato, duty |-> duty,
     sync |-> sync, amplitude |-> amplitude]

\* the parameters' defaultValue
DefaultFrame == Frame(ONE, 440, 0, 800, 500, 0, ONE)

\* sequences of len frames: the first of F, the later ones of G
FrameSeqs(F, G, len) ==
    {fs \in [1..len -> F \cup G] :
        /\ len > 0 => fs[1] \in F
        /\ \A i \in 2..len : fs[i] \in G}

\* Math.random()
RandomDraws == {0, 999}

\* the draws of Math.random() a call may see, one per sample; the draw is
\* made only in the noise branches
Randoms(parameters, len) ==
    IF \E i \in 0..(len - 1) :
          Floor(getRateValue(parameters.signalType, i)) \in {4 * ONE, 5 * ONE, 6 * ONE}
    THEN [1..len -> RandomDraws]
    ELSE {[i \in 1..len |-> 0]}

\* a call by the host: outputs of one of the shapes <<buses, length>>, and
\* arrays for a sequence of frames (the first of F, the later ones of G), all
\* a-rate or all k-rate as rates allows; a call that processes no sample is
\* given the default values
Call(shapes, F, G, rates, maxCalls) ==
    /\ calls < maxCalls
    /\ \E shape \in shapes :
         \E arate \in rates :
           \E fs \in IF shape[1] = 0 \/ shape[2] = 0 THEN {<<DefaultFrame>>}
                     ELSE IF arate = {} THEN {<<f>> : f \in F}
                     ELSE FrameSeqs(F, G, shape[2]) :
             /\ arate /= {} => Len(fs) > 1
             /\ LET parameters == Arrays(fs, arate)
                IN  \E randoms \in Randoms(parameters, shape[2]) :
                      Process(Buffers(shape[1], shape[2]), parameters, randoms)

InitWith(rates) ==
    /\ sampleRate \in rates
    /\ leaderPhase = constructed.leaderPhase
    /\ followerPhase = constructed.followerPhase
    /\ b0 = constructed.b0
    /\ b1 = constructed.b1
    /\ b2 = constructed.b2
    /\ b3 = constructed.b3
    /\ b4 = constructed.b4
    /\ b5 = constructed.b5
    /\ b6 = constructed.b6
    /\ lastOut = constructed.lastOut
    /\ outputs = <<>>
    /\ returned = "none"
    /\ passed = Arrays(<<DefaultFrame>>, {})
    /\ log = <<>>
    /\ calls = 0

\* the entries of the log with their sample rate
Entries == {log[i] : i \in 1..Len(log)}

----------------------------------------------------------------------------
(* The phases: frequency, offset, vibrato and sync over their ranges *)

MaxCalls == 3

PhaseFrames ==
    {Frame(2 * ONE, sampleRate \div 2, pv[1], pv[2], 500, s, ONE) :
        pv \in {<<ONE, ONE>>, <<300, 800>>},
        s \in {0, sampleRate \div 4, (5 * sampleRate) \div 2}}

PhaseLater ==
    {Frame(2 * ONE, 0, 300, 800, 500, sampleRate \div 2, ONE),
     Frame(2 * ONE, sampleRate \div 2, ONE, 0, 500, 0, ONE)}

Init == InitWith({8, 1000})

Next ==
    \/ Call({<<0, 0>>, <<1, 1>>, <<1, 2>>}, PhaseFrames, {}, {{}}, MaxCalls)
    \/ Call({<<1, 2>>}, PhaseFrames, PhaseLater, {ParameterNames}, MaxCalls)

Spec == Init /\ [][Next]_vars

\* C1: after every sample's update, and between calls, leaderPhase and
\* followerPhase are both at least 0 and below 1, whatever the frequency,
\* phaseOffset, vibrato and sync (in their declared ranges) of the samples
\* so far, zero sync and changes of sync between zero and non-zero included.
C1_PhasesInRange ==
    /\ 0 <= leaderPhase /\ leaderPhase < ONE
    /\ 0 <= followerPhase /\ followerPhase < ONE
    /\ \A e \in Entries :
         /\ 0 <= e.leaderPhase /\ e.leaderPhase < ONE
         /\ 0 <= e.followerPhase /\ e.followerPhase < ONE

\* sync went from non-zero (with a retrigger) to zero and back, and a
\* follower beyond 1 before the modulo was wrapped
C1_Witness ==
    /\ Len(log) >= 3
    /\ \E i \in 1..(Len(log) - 2) :
         /\ log[i].sync /= 0 /\ log[i].retriggered
         /\ log[i + 1].sync = 0
         /\ log[i + 2].sync /= 0
         /\ log[i + 1].followerBefore
              + Normalize(log[i + 1].frequency, sampleRate)
              + log[i + 1].phaseOffset >= ONE

\* C2: in every sample step the follower is retriggered exactly when sync is
\* not 0 and leaderPhase plus sync/sampleRate is at least 1; then leaderPhase
\* is wrapped into [0,1) and followerPhase restarts from 0, so that it ends
\* the step at a value fixed by this sample's phaseOffset and vibrato alone,
\* whatever it was before and whatever the frequency.  In every other step
\* leaderPhase keeps the sum and followerPhase advances by
\* frequency/sampleRate (then offset, vibrato and wrap); with sync 0 there is
\* no retrigger.
C2_RetriggerRule ==
    /\ \A e \in Entries :
         LET moved == e.leaderBefore + (e.sync * ONE) \div sampleRate
         IN  /\ e.retriggered <=> (e.sync /= 0 /\ moved >= ONE)
             /\ e.sync = 0 => ~e.retriggered
             /\ e.retriggered =>
                  /\ e.leaderPhase = moved % ONE
                  /\ e.followerPhase = offsetVibrato(0, e.phaseOffset, e.vibrato)
             /\ ~e.retriggered =>
                  /\ e.leaderPhase = moved
                  /\ e.followerPhase =
                       offsetVibrato(e.followerBefore
                                       + (e.frequency * ONE) \div sampleRate,
                                     e.phaseOffset, e.vibrato)
    /\ \A e1, e2 \in Entries :
         (/\ e1.retriggered /\ e2.retriggered
          /\ e1.phaseOffset = e2.phaseOffset /\ e1.vibrato = e2.vibrato)
         => e1.followerPhase = e2.followerPhase

\* two retriggers with the same offset and vibrato from different follower
\* phases and frequencies, one of them with leaderPhase reaching exactly 1,
\* and a step with sync 0
C2_Witness ==
    /\ \E e1, e2 \in Entries :
         /\ e1.retriggered /\ e2.retriggered
         /\ e1.phaseOffset = e2.phaseOffset /\ e1.vibrato = e2.vibrato
         /\ e1.followerBefore /= e2.followerBefore
         /\ e1.frequency /= e2.frequency
         /\ e1.leaderBefore + (e1.sync * ONE) \div sampleRate = ONE
    /\ \E e \in Entries : e.sync = 0 /\ e.followerBefore /= 0

----------------------------------------------------------------------------
(* Hard sync to a leader whose period is a whole number of samples *)

SyncCalls == 3

SyncBlock == 4

\* frames that set the follower going while the leader rests at 0
SyncPreludes ==
    {Frame(2 * ONE, sampleRate \div 4, 0, 0, 500, 0, ONE),
     Frame(2 * ONE, sampleRate \div 2, 300, ONE, 500, 0, ONE)}

\* frames of a follower of frequency 0 synced to sampleRate/2 or sampleRate/4
SyncRuns ==
    {Frame(2 * ONE, 0, 0, ONE, 500, s, ONE) :
        s \in {sampleRate \div 2, sampleRate \div 4}}

SyncNext ==
    \/ Call({<<1, 1>>, <<1, SyncBlock>>}, SyncPreludes \cup SyncRuns, {},
            {{}}, SyncCalls)
    \/ Call({<<1, 2>>}, SyncPreludes \cup SyncRuns, SyncRuns,
            {ParameterNames}, SyncCalls)

SyncSpec == InitWith({8, 1000}) /\ [][SyncNext]_vars

\* samples i..j of the log are a run of constant sync s > 0 that divides
\* sampleRate, with frequency 0 and phaseOffset 0, begun at leaderPhase 0
SyncRun(i, j) ==
    /\ log[i].leaderBefore = 0
    /\ log[i].sync > 0
    /\ sampleRate % log[i].sync = 0
    /\ \A k \in i..j :
         /\ log[k].sync = log[i].sync
         /\ log[k].frequency = 0
         /\ log[k].phaseOffset = 0

----------------------------------------------------------------------------
(* The waveforms, the amplitude and the outputs *)

WaveCalls == 2

MaxBuses == 2

\* every signalType (1.5 and 7 too) at amplitude 2.5, and some at other
\* amplitudes and duties
WaveFrames ==
    {Frame(w, sampleRate \div 4, 0, 0, 500, 0, 2500) :
        w \in {0, ONE, 1500, 2 * ONE, 3 * ONE, 4 * ONE, 5 * ONE, 6 * ONE,
               7 * ONE}}
    \cup {Frame(ONE, sampleRate \div 4, 0, 0, d, 0, ONE) : d \in {0, 250, ONE}}
    \cup {Frame(2 * ONE, sampleRate \div 4, 0, 0, 500, 0, a) : a \in {0, 500}}

WaveLater ==
    {Frame(7 * ONE, sampleRate \div 4, 0, 0, 500, 0, 2500),
     Frame(5 * ONE, sampleRate \div 4, 0, 0, 500, 0, 2500)}

\* the frames given to the calls with two buses or more
BusFrames ==
    {Frame(ONE, sampleRate \div 4, 0, 0, 500, 0, ONE),
     Frame(4 * ONE, sampleRate \div 4, 0, 0, 500, 0, ONE)}

WaveNext ==
    \/ Call({<<o, n>> : o \in 0..1, n \in 0..1}, WaveFrames, {}, {{}},
            WaveCalls)
    \/ Call({<<o, n>> : o \in 2..MaxBuses, n \in 0..1}, BusFrames, {}, {{}},
            WaveCalls)
    \/ Call({<<1, 2>>}, WaveFrames, WaveLater, {ParameterNames}, WaveCalls)

WaveSpec == InitWith({1000}) /\ [][WaveNext]_vars

\* the entries of the log made by the last call
LastEntries == {e \in Entries : e.call = calls}

\* value limited to [-1, 1]
Clamp(value) ==
    IF value > ONE THEN ONE ELSE IF value < -ONE THEN -ONE ELSE value

\* C7: every sample process() stores in channel 0 is amplitude times the raw
\* sample of the branch that floor(signalType) selects (0 when it selects
\* none), limited to [-1, 1]; so every stored value lies in [-1, 1].
C7_ClippedOutput ==
    /\ \A e \in Entries :
         /\ e.value = Clamp((e.amplitude * e.sampleValue) \div ONE)
         /\ -ONE <= e.value /\ e.value <= ONE
         /\ e.wave = (e.signalType \div ONE) * ONE
         /\ e.wave = 3 * ONE => e.sampleValue = sine(e.followerPhase)
         /\ e.wave = 2 * ONE => e.sampleValue = sawtooth(e.followerPhase)
         /\ e.wave = ONE => e.sampleValue = pulse(e.followerPhase, e.duty)
         /\ e.wave = 0 => e.sampleValue = triangle(e.followerPhase)
         /\ e.wave \notin {k * ONE : k \in 0..6} => e.sampleValue = 0
    /\ \A e \in LastEntries : outputs[1][e.index + 1] = e.value

\* samples limited from above and from below, a sample below the limits, a
\* signalType with a fraction and one that selects no branch
C7_Witness ==
    /\ \E e \in Entries :
         (e.amplitude * e.sampleValue) \div ONE > ONE /\ e.value = ONE
    /\ \E e \in Entries :
         (e.amplitude * e.sampleValue) \div ONE < -ONE /\ e.value = -ONE
    /\ \E e \in Entries : e.signalType = 1500 /\ e.value = -ONE
    /\ \E e \in Entries : e.wave = 7 * ONE /\ e.value = 0
    /\ \E e \in Entries : e.wave = 5 * ONE /\ e.value \notin {0, ONE, -ONE}

\* C4: after a call with two or more output buses, channel 0 of every bus
\* holds the block's samples: all buses hold the same sequence.
C4_EveryBusFilled ==
    Len(outputs) >= 2 => \A o \in 1..Len(outputs) : outputs[o] = outputs[1]

\* C5: every call of process() returns true, whatever the outputs.
C5_ReturnsTrue == calls > 0 => returned = "true"

\* C9: the pulse's raw sample is +1 or -1, the share of the phases of one
\* cycle at which it is +1 is the duty, for every duty in [0, 1], and with
\* duty 0.5 it is +1 exactly from the half cycle on.
C9_DutyIsHighShare ==
    \A e \in Entries :
        e.wave = ONE =>
            /\ e.sampleValue \in {ONE, -ONE}
            /\ Cardinality({p \in 0..(ONE - 1) : pulse(p, e.duty) = ONE})
                 = e.duty
            /\ e.duty = 500 =>
                 \A p \in 0..(ONE - 1) : pulse(p, 500) = ONE <=> p >= 500

----------------------------------------------------------------------------
(* A sine of 100 Hz at a sample rate of 1000 Hz, from construction *)

SineCalls == 2

SineBlock == 10

SineFrames ==
    {Frame(w, f, 0, 0, 500, 0, a) :
        w \in {3 * ONE, 2 * ONE}, f \in {100, 250}, a \in {ONE, 500}}

SineNext ==
    Call({<<0, 0>>, <<1, 1>>, <<1, SineBlock>>}, SineFrames, {}, {{}},
         SineCalls)

SineSpec == InitWith({1000}) /\ [][SineNext]_vars

\* the first i samples since construction are those of one block with
\* signalType 3, frequency 100, amplitude 1, phaseOffset 0, vibrato 0 and
\* sync 0, at a sample rate of 1000
SineRun(i) ==
    /\ sampleRate = 1000
    /\ i <= Len(log)
    /\ \A k \in 1..i :
         /\ log[k].index = k - 1
         /\ log[k].signalType = 3 * ONE
         /\ log[k].frequency = 100
         /\ log[k].amplitude = ONE
         /\ log[k].phaseOffset = 0
         /\ log[k].vibrato = 0
         /\ log[k].sync = 0

\* C8 as claimed: on a fresh oscillator the sample at index k of that block
\* is sin(2 pi k 100/1000): sample 0 is generated at phase 0.
C8_SineFromPhaseZero ==
    \A i \in 1..Len(log) :
        SineRun(i) =>
            log[i].value = Sin((2 * PI * (i - 1) * 100) \div 1000)

\* C8 as amended: the phase is advanced before the sample is generated, so
\* the sample at index k is sin(2 pi (k+1) 100/1000), generated at the
\* follower phase frac((k+1) 100/1000).
C8_SineFromFirstStep ==
    \A i \in 1..Len(log) :
        SineRun(i) =>
            /\ log[i].followerPhase = ((i * 100 * ONE) \div 1000) % ONE
            /\ log[i].value = Sin((2 * PI * i * 100) \div 1000)

\* the block of ten samples, k = 0..9
C8_Witness == SineRun(10) /\ log[10].call = 1 /\ log[3].value > 900

----------------------------------------------------------------------------
(* Blocks of different lengths, one after another *)

SplitCalls == 2

SplitBlock == 3

SplitFrames ==
    {Frame(2 * ONE, sampleRate \div 4, 300, ONE, 500, 0, ONE),
     Frame(ONE, sampleRate \div 10, 300, 800, 250, (5 * sampleRate) \div 2,
           2500)}

SplitLater ==
    {Frame(0, sampleRate \div 4, 0, ONE, 500, sampleRate \div 4, ONE),
     Frame(3 * ONE, sampleRate \div 10, 300, 0, 500, 0, ONE)}

SplitNext ==
    \/ Call({<<1, n>> : n \in 1..SplitBlock}, SplitFrames, {}, {{}},
            SplitCalls)
    \/ Call({<<1, n>> : n \in 2..SplitBlock}, SplitFrames, SplitLater,
            {ParameterNames}, SplitCalls)

SplitSpec == InitWith({1000}) /\ [][SplitNext]_vars

\* the frame the sample of a log entry was made with
FrameOf(e) ==
    Frame(e.signalType, e.frequency, e.phaseOffset, e.vibrato, e.duty,
          e.sync, e.amplitude)

\* what process() does from the state before sample i of the log when it is
\* given the frames of the samples i.. of the log as one block
AsOneBlock(i) ==
    LET n == Len(log) - i + 1
        fs == [k \in 1..n |-> FrameOf(log[i + k - 1])]
    IN  process([this EXCEPT !.leaderPhase = log[i].leaderBefore,
                             !.followerPhase = log[i].followerBefore],
                Buffers(1, n), Arrays(fs, ParameterNames),
                [k \in 1..n |-> 0], sampleRate)

\* C10: for one output bus and the waveforms 0..3, the samples and the final
\* phases of consecutive blocks are those of the one block made of their
\* frames: nothing is reset or set up again when a call starts.
C10_BlocksUnobservable ==
    \A i \in 1..Len(log) :
        (log[i].index = 0 /\ \A k \in i..Len(log) : log[k].wave \in {0, ONE, 2 * ONE, 3 * ONE}) =>
            LET one == AsOneBlock(i)
            IN  /\ one.st = this
                /\ \A k \in i..Len(log) :
                     one.outputs[1][k - i + 1] = log[k].value

\* a block of three samples made in two calls, of one and of two samples,
\* from phases that are not 0 when the second call starts
C10_Witness ==
    /\ Len(log) = 3
    /\ log[1].call = 1 /\ log[2].call = 2 /\ log[3].call = 2
    /\ log[2].followerBefore /= 0 /\ log[2].leaderBefore /= 0
    /\ log[2].frequency /= log[3].frequency

----------------------------------------------------------------------------
(* Parameter arrays of a length that is neither 1 nor the block's *)

MalformedCalls == 2

MalformedBlock == 3

\* a call with one parameter's array of a length other than 1 and the block
\* length: 0, 2 .. length - 1, or length + 1
CallMalformed(shapes, F, maxCalls) ==
    /\ calls < maxCalls
    /\ \E shape \in shapes : \E f \in F : \E name \in ParameterNames :
         \E n \in (0..(shape[2] + 1)) \ {1, shape[2]} :
           Process(Buffers(shape[1], shape[2]),
                   [Arrays(<<f>>, {}) EXCEPT ![name] = [i \in 1..n |-> f[name]]],
                   [i \in 1..shape[2] |-> 0])

MalformedNext ==
    \/ Call({<<1, 1>>, <<1, MalformedBlock>>}, SplitFrames, {}, {{}},
            MalformedCalls)
    \/ CallMalformed({<<1, 1>>, <<1, MalformedBlock>>}, SplitFrames,
                     MalformedCalls)

MalformedSpec == InitWith({1000}) /\ [][MalformedNext]_vars

\* the last call had a block to fill and a parameter array of a length other
\* than 1 and the block's
MalformedCall ==
    /\ calls > 0
    /\ Len(outputs) > 0
    /\ Len(outputs[1]) > 0
    /\ \E name \in ParameterNames :
         Len(passed[name]) \notin {1, Len(outputs[1])}

\* C6: a call given a parameter array of such a length ends in an error: no
\* value resolved from it reaches the phases, the noise state or the output.
C6_MalformedFailsFast ==
    MalformedCall =>
        /\ returned = "error"
        /\ \A i \in 1..Len(fields) : ~IsNaN(fields[i])
        /\ \A i \in 1..Len(outputs[1]) : ~IsNaN(outputs[1][i])

====
